---- MODULE Spec2Model ----
(***************************************************************************)
(* Model of src/src/parse.rs: the string normalizer                        *)
(* (parse_localized_string_value and its four steps) and the key builder   *)
(* (key_from_locale_value_map and its two constructions).                  *)
(*                                                                         *)
(* A string is a sequence of one-character strings; positions are 1-based, *)
(* and a match is a record [start, end] with end the position after the    *)
(* last matched character (the half-open range of regex::Match).           *)
(***************************************************************************)
EXTENDS Integers, Sequences, FiniteSets, TLC

\* ------------------------------------------------------------------ bounds

\* Longest input, counted in tokens of InputTokens.
MaxTokens == 3

\* Most entries of one raw locale map.
MaxEntries == 3

\* ------------------------------------------------------- character classes

Digits == {"0", "1", "2", "3", "4", "5", "6", "7", "8", "9"}

\* [-+0#,]
FlagChars == {"-", "+", "0", "#", ","}

\* [diufFeEgGxXoscpaA@]
PLACEHOLDER_TYPES ==
    {"d", "i", "u", "f", "F", "e", "E", "g", "G", "x", "X", "o", "s", "c",
     "p", "a", "A", "@"}

CharAt(s, p) == IF p >= 1 /\ p <= Len(s) THEN s[p] ELSE ""

Slice(s, from, to) == SubSeq(s, from, to - 1)

\* Number of consecutive digits of s from position p on.
RECURSIVE DigitRun(_, _)
DigitRun(s, p) ==
    IF CharAt(s, p) \in Digits THEN 1 + DigitRun(s, p + 1) ELSE 0

\* k, k-1, ..., 1 as a sequence: the order a greedy repetition tries.
Downto(k) == [i \in 1..k |-> k + 1 - i]

\* ------------------------------------------------- the placeholder grammar
\* Each part maps a position to the positions after it, in the order the
\* regex engine prefers them (leftmost-first: a greedy `?' tries the group
\* before skipping it, a greedy `+' the longest run first).

\* \d+
DigitsPlus(s, p) == [i \in 1..DigitRun(s, p) |-> p + Downto(DigitRun(s, p))[i]]

\* (\d+\$)?
OptParameter(s, p) ==
    SelectSeq([i \in 1..Len(DigitsPlus(s, p)) |-> DigitsPlus(s, p)[i] + 1],
              LAMBDA q : CharAt(s, q - 1) = "$")
    \o <<p>>

\* ([-+0#,])?
OptFlags(s, p) ==
    (IF CharAt(s, p) \in FlagChars THEN <<p + 1>> ELSE <<>>) \o <<p>>

\* (\d+|\*)
DigitsOrStar(s, p) ==
    DigitsPlus(s, p) \o (IF CharAt(s, p) = "*" THEN <<p + 1>> ELSE <<>>)

\* (\d+|\*)?
OptWidth(s, p) == DigitsOrStar(s, p) \o <<p>>

\* (\.(\d+|\*))?
OptPrecision(s, p) ==
    (IF CharAt(s, p) = "." THEN DigitsOrStar(s, p + 1) ELSE <<>>) \o <<p>>

\* (hh?|ll?|L|z|j|t|q)?
OptLength(s, p) ==
    (IF CharAt(s, p) = "h"
        THEN (IF CharAt(s, p + 1) = "h" THEN <<p + 2>> ELSE <<>>) \o <<p + 1>>
        ELSE <<>>)
    \o (IF CharAt(s, p) = "l"
        THEN (IF CharAt(s, p + 1) = "l" THEN <<p + 2>> ELSE <<>>) \o <<p + 1>>
        ELSE <<>>)
    \o (IF CharAt(s, p) \in {"L", "z", "j", "t", "q"} THEN <<p + 1>> ELSE <<>>)
    \o <<p>>

\* Sequencing: every continuation by the named part of every position of
\* ps, in order.
RECURSIVE Part(_, _, _)
RECURSIVE Then(_, _, _)
Then(part, s, ps) ==
    IF ps = <<>> THEN <<>>
    ELSE Part(part, s, Head(ps)) \o Then(part, s, Tail(ps))

\* ([-+0#,])?(\d+|\*)?(\.(\d+|\*))?(hh?|ll?|L|z|j|t|q)?
PLACEHOLDER_FLAGS_WIDTH_PRECISION_LENGTH(s, p) ==
    Then("length", s, Then("precision", s, Then("width", s, OptFlags(s, p))))

\* (\d+\$)?([-+0#,])?(\d+|\*)?(\.(\d+|\*))?(hh?|ll?|L|z|j|t|q)?
PLACEHOLDER_PARAMETER_FLAGS_WIDTH_PRECISION_LENGTH(s, p) ==
    Then("flags_width_precision_length", s, OptParameter(s, p))

Part(part, s, p) ==
    CASE part = "width" -> OptWidth(s, p)
      [] part = "precision" -> OptPrecision(s, p)
      [] part = "length" -> OptLength(s, p)
      [] part = "flags_width_precision_length" ->
            PLACEHOLDER_FLAGS_WIDTH_PRECISION_LENGTH(s, p)

\* One literal or class character after each of ps.
OneOf(s, ps, class) ==
    LET hits == SelectSeq(ps, LAMBDA q : CharAt(s, q) \in class)
    IN  [i \in 1..Len(hits) |-> hits[i] + 1]

First(ends) == IF ends = <<>> THEN 0 ELSE Head(ends)

\* The end of the match of each pattern anchored at p, 0 when there is none.

\* %(\d+\$)?...[diufFeEgGxXoscpaA@]
PLACEHOLDER_REGEX(s, p) ==
    IF CharAt(s, p) # "%" THEN 0
    ELSE First(OneOf(s, PLACEHOLDER_PARAMETER_FLAGS_WIDTH_PRECISION_LENGTH(s, p + 1),
                     PLACEHOLDER_TYPES))

\* %(...[diufFeEgGxXoscpaA@])
NON_NUMBERED_PLACEHOLDER_REGEX(s, p) ==
    IF CharAt(s, p) # "%" THEN 0
    ELSE First(OneOf(s, PLACEHOLDER_FLAGS_WIDTH_PRECISION_LENGTH(s, p + 1),
                     PLACEHOLDER_TYPES))

\* Variant: the pattern built from the grammar without the `N$' prefix.
TwineRegexWithoutParameter(s, p) ==
    IF CharAt(s, p) # "%" THEN 0
    ELSE First(OneOf(s, PLACEHOLDER_FLAGS_WIDTH_PRECISION_LENGTH(s, p + 1), {"@"}))

\* %((\d+\$)?...)@
TWINE_STRING_REPLACE_REGEX(s, p) ==
    IF CharAt(s, p) # "%" THEN 0
    ELSE First(OneOf(s, PLACEHOLDER_PARAMETER_FLAGS_WIDTH_PRECISION_LENGTH(s, p + 1),
                     {"@"}))

\* ([^%][%][^%]|[^%][%]$|^[%]$)
SINGLE_PERCENT_REGEX(s, p) ==
    IF p <= Len(s) /\ s[p] # "%" /\ CharAt(s, p + 1) = "%"
          /\ p + 2 <= Len(s) /\ s[p + 2] # "%"
        THEN p + 3
    ELSE IF p <= Len(s) /\ s[p] # "%" /\ CharAt(s, p + 1) = "%" /\ p + 1 = Len(s)
        THEN p + 2
    ELSE IF p = 1 /\ CharAt(s, 1) = "%" /\ Len(s) = 1
        THEN 2
    ELSE 0

\* ------------------------------------------------------- the regex engine

\* The lazy_static patterns, by name: the end of the named pattern's match
\* anchored at p, 0 when there is none.
Match(re, s, p) ==
    CASE re = "PLACEHOLDER_REGEX_RE" -> PLACEHOLDER_REGEX(s, p)
      [] re = "NON_NUMBERED_PLACEHOLDER_REGEX_RE" -> NON_NUMBERED_PLACEHOLDER_REGEX(s, p)
      [] re = "TWINE_STRING_REPLACE_REGEX" -> TWINE_STRING_REPLACE_REGEX(s, p)
      [] re = "SINGLE_PERCENT_REGEX_RE" -> SINGLE_PERCENT_REGEX(s, p)

\* Option<Match>::None
NoMatch == [start |-> 0, end |-> 0]

\* Regex::find_at: the leftmost match starting at or after `from'.
RECURSIVE find_at(_, _, _)
find_at(re, s, from) ==
    IF from > Len(s) THEN NoMatch
    ELSE IF Match(re, s, from) # 0 THEN [start |-> from, end |-> Match(re, s, from)]
    ELSE find_at(re, s, from + 1)

\* Regex::is_match
is_match(re, s) == find_at(re, s, 1) # NoMatch

\* Regex::find_iter: the successive non-overlapping matches, left to right.
RECURSIVE find_iter_from(_, _, _)
find_iter_from(re, s, from) ==
    LET m == find_at(re, s, from)
    IN  IF m = NoMatch THEN <<>>
        ELSE <<m>> \o find_iter_from(re, s, m.end)

find_iter(re, s) == find_iter_from(re, s, 1)

\* str::replace of one character by a string.
RECURSIVE str_replace(_, _, _)
str_replace(s, c, by) ==
    IF s = <<>> THEN <<>>
    ELSE (IF Head(s) = c THEN by ELSE <<Head(s)>>) \o str_replace(Tail(s), c, by)

str_contains(s, c) == \E i \in 1..Len(s) : s[i] = c

\* str::find of a character: its 0-based offset.
str_find(s, c) == (CHOOSE i \in 1..Len(s) : s[i] = c /\ \A j \in 1..(i - 1) : s[j] # c) - 1

\* format!("{}", i)
DigitOf(d) ==
    CASE d = 0 -> "0" [] d = 1 -> "1" [] d = 2 -> "2" [] d = 3 -> "3"
      [] d = 4 -> "4" [] d = 5 -> "5" [] d = 6 -> "6" [] d = 7 -> "7"
      [] d = 8 -> "8" [] d = 9 -> "9"

RECURSIVE format_int(_)
format_int(i) ==
    IF i < 10 THEN <<DigitOf(i)>> ELSE format_int(i \div 10) \o <<DigitOf(i % 10)>>

\* ------------------------------------------------------ the normalizer steps

AMP == <<"&", "a", "m", "p", ";">>
LT == <<"&", "l", "t", ";">>

\* Variant: `<' replaced before `&'.
EscapeLtFirst(input) ==
    IF str_contains(input, "&") \/ str_contains(input, "<")
        THEN str_replace(str_replace(input, "<", LT), "&", AMP)
        ELSE input

maybe_escape_characters(input) ==
    IF str_contains(input, "&") \/ str_contains(input, "<")
        THEN str_replace(str_replace(input, "&", AMP), "<", LT)
        ELSE input

percent_start(s, m) == m.start + str_find(Slice(s, m.start, m.end), "%")

\* The closure of maybe_replace_single_percent_with_double_percent.
SinglePercentReplacer(input, whole_match, k) ==
    LET start == percent_start(input, whole_match)
        found == find_at("PLACEHOLDER_REGEX_RE", input, start)
        is_placeholder == found # NoMatch /\ found.start = start
    IN  IF is_placeholder
            THEN Slice(input, whole_match.start, whole_match.end)
            ELSE str_replace(Slice(input, whole_match.start, whole_match.end),
                             "%", <<"%", "%">>)

\* r"%${1}s": group 1 is everything between the `%' and the `@'.
TwineReplacer(s, m, k) == <<"%">> \o Slice(s, m.start + 1, m.end - 1) \o <<"s">>

\* Variant: the counter read before it is incremented.
PositionalReplacerFromZero(s, m, i) ==
    <<"%">> \o format_int(i - 1) \o <<"$">> \o Slice(s, m.start + 1, m.end)

\* format!("%{}${}", i, &caps[1]): group 1 is everything after the `%'; the
\* closure's counter i equals the rank of the match.
PositionalReplacer(s, m, i) ==
    <<"%">> \o format_int(i) \o <<"$">> \o Slice(s, m.start + 1, m.end)

\* The replacers, by name: the text that replaces match m, the k-th.
Replacement(replacer, s, m, k) ==
    CASE replacer = "single_percent" -> SinglePercentReplacer(s, m, k)
      [] replacer = "twine" -> TwineReplacer(s, m, k)
      [] replacer = "positional" -> PositionalReplacer(s, m, k)

\* Regex::replace_all: the text outside the matches kept, each match
\* replaced, the replacer called once per match, left to right.
RECURSIVE Splice(_, _, _, _, _)
Splice(replacer, s, ms, k, from) ==
    IF k > Len(ms) THEN Slice(s, from, Len(s) + 1)
    ELSE Slice(s, from, ms[k].start) \o Replacement(replacer, s, ms[k], k)
         \o Splice(replacer, s, ms, k + 1, ms[k].end)

replace_all(re, s, replacer) == Splice(replacer, s, find_iter(re, s), 1, 1)

maybe_replace_single_percent_with_double_percent(input) ==
    replace_all("SINGLE_PERCENT_REGEX_RE", input, "single_percent")

convert_twine_string_placeholder(raw_value) ==
    replace_all("TWINE_STRING_REPLACE_REGEX", raw_value, "twine")

\* Variant: only a string without any unpositioned directive is returned as is.
AddPositionalNumbersToSingle(input) ==
    LET non_numbered_count ==
            Len(find_iter("NON_NUMBERED_PLACEHOLDER_REGEX_RE", input))
    IN  IF non_numbered_count < 1 THEN input
        ELSE replace_all("NON_NUMBERED_PLACEHOLDER_REGEX_RE", input, "positional")

maybe_add_positional_numbers(input) ==
    LET non_numbered_count ==
            Len(find_iter("NON_NUMBERED_PLACEHOLDER_REGEX_RE", input))
    IN  IF non_numbered_count <= 1 THEN input
        ELSE replace_all("NON_NUMBERED_PLACEHOLDER_REGEX_RE", input, "positional")

parse_localized_string_value(raw) ==
    LET doubled == maybe_replace_single_percent_with_double_percent(
                       maybe_escape_characters(raw))
    IN  IF ~is_match("PLACEHOLDER_REGEX_RE", doubled) THEN doubled
        ELSE maybe_add_positional_numbers(convert_twine_string_placeholder(doubled))

\* ------------------------------------------------------------ the state

VARIABLES
    raw_value,          \* parse_localized_string_value's argument
    value,              \* its local `value'
    pc,                 \* the statement the run is at
    raw_localizations,  \* key_from_locale_value_map's argument, in insertion order
    next_entry,         \* the entry the construction's loop is at
    localizations,      \* the construction's local `localizations'
    key                 \* the returned Result<Key, String>

vars == <<raw_value, value, pc, raw_localizations, next_entry, localizations, key>>

\* ------------------------------------------------------------- the inputs

\* The pieces the normalizer's inputs are made of: the characters the four
\* steps look at, one character they do not (k), and whole directives, so
\* that inputs of MaxTokens pieces hold several directives.
InputTokens ==
    { <<"%">>, <<"d">>, <<"@">>, <<"1">>, <<"$">>, <<"k">>, <<"&">>, <<"<">>, <<">">>,
      <<"0">>, <<".">>, <<"l">>,
      <<"k", "%">>, <<"%", "d">>, <<"%", "@">>, <<"%", "1", "$", "d">>,
      <<"%", "2", "$", "@">>, <<"%", ".", "2", "f">> }

RECURSIVE Concat(_)
Concat(ts) == IF ts = <<>> THEN <<>> ELSE Head(ts) \o Concat(Tail(ts))

Inputs ==
    {Concat(ts) : ts \in UNION {[1..n -> InputTokens] : n \in 0..MaxTokens}}

NoKey == [ok |-> FALSE, localizations |-> <<>>]

\* ---------------------------------------- parse_localized_string_value

Init ==
    /\ raw_value \in Inputs
    /\ value = raw_value
    /\ pc = "escape"
    /\ raw_localizations = <<>>
    /\ next_entry = 1
    /\ localizations = <<>>
    /\ key = NoKey

KeyUnchanged == UNCHANGED <<raw_localizations, next_entry, localizations, key>>

EscapeCharacters ==
    /\ pc = "escape"
    /\ value' = maybe_escape_characters(value)
    /\ pc' = "percent"
    /\ UNCHANGED raw_value
    /\ KeyUnchanged

ReplaceSinglePercent ==
    /\ pc = "percent"
    /\ value' = maybe_replace_single_percent_with_double_percent(value)
    /\ pc' = "placeholders"
    /\ UNCHANGED raw_value
    /\ KeyUnchanged

ReturnWithoutPlaceholders ==
    /\ pc = "placeholders"
    /\ ~is_match("PLACEHOLDER_REGEX_RE", value)
    /\ pc' = "done"
    /\ UNCHANGED <<raw_value, value>>
    /\ KeyUnchanged

ConvertTwinePlaceholder ==
    /\ pc = "placeholders"
    /\ is_match("PLACEHOLDER_REGEX_RE", value)
    /\ value' = convert_twine_string_placeholder(value)
    /\ pc' = "number"
    /\ UNCHANGED raw_value
    /\ KeyUnchanged

AddPositionalNumbers ==
    /\ pc = "number"
    /\ value' = maybe_add_positional_numbers(value)
    /\ pc' = "done"
    /\ UNCHANGED raw_value
    /\ KeyUnchanged

Next ==
    \/ EscapeCharacters
    \/ ReplaceSinglePercent
    \/ ReturnWithoutPlaceholders
    \/ ConvertTwinePlaceholder
    \/ AddPositionalNumbers

Spec == Init /\ [][Next]_vars

\* ------------------------------------------------ key_from_locale_value_map

\* Option<String>
NoValue == [some |-> FALSE, text |-> <<>>]
Some(text) == [some |-> TRUE, text |-> text]

\* StringValue
Single(text) == [kind |-> "Single", text |-> text, quantities |-> <<>>]
Plural(quantities) == [kind |-> "Plural", text |-> <<>>, quantities |-> quantities]

LocalizedString(language_code, string_value) ==
    [language_code |-> language_code, value |-> string_value]

PluralValue(quantity, text) == [quantity |-> quantity, text |-> text]

\* str::split_once(':'): the parts before and after the first `:'.
RECURSIVE split_once_from(_, _)
split_once_from(s, i) ==
    IF i > Len(s) THEN [found |-> FALSE, before |-> <<>>, after |-> <<>>]
    ELSE IF s[i] = ":"
        THEN [found |-> TRUE, before |-> Slice(s, 1, i), after |-> Slice(s, i + 1, Len(s) + 1)]
    ELSE split_once_from(s, i + 1)

split_once(s) == split_once_from(s, 1)

\* Variant: all() in place of any().
AllKeysAreCompound(raw) == \A i \in 1..Len(raw) : str_contains(raw[i].tag, ":")

\* raw_localizations.keys().any(|l| l.contains(':'))
any_key_is_compound(raw) == \E i \in 1..Len(raw) : str_contains(raw[i].tag, ":")

\* IndexMap::get_index_of: the slot of a locale, 0 when it has none.
RECURSIVE index_of_from(_, _, _)
index_of_from(locs, locale_name, i) ==
    IF i > Len(locs) THEN 0
    ELSE IF locs[i].language_code = locale_name THEN i
    ELSE index_of_from(locs, locale_name, i + 1)

index_of(locs, locale_name) == index_of_from(locs, locale_name, 1)

\* Variant: a new slot whether or not the locale has one.
EntryAlwaysInsert(locs, locale_name) ==
    Append(locs, LocalizedString(locale_name, Plural(<<>>)))

\* IndexMap::entry(locale_name).or_insert(LocalizedString { Plural { [] } })
entry_or_insert(locs, locale_name) ==
    IF index_of(locs, locale_name) # 0 THEN locs
    ELSE Append(locs, LocalizedString(locale_name, Plural(<<>>)))

\* quantities.push(PluralValue { .. }) on the locale's entry; an entry that
\* is not Plural is left as it is (the let-else `continue').
push_quantity(locs, locale_name, quantity, text) ==
    LET at == index_of(locs, locale_name)
    IN  IF locs[at].value.kind # "Plural" THEN locs
        ELSE [locs EXCEPT ![at].value.quantities = Append(@, PluralValue(quantity, text))]

\* The locale tags and the values the raw maps are made of.
Tags ==
    { <<"e", "n">>, <<"r", "u">>, <<"d", "e">>,
      <<"e", "n", ":", "o", "n", "e">>, <<"e", "n", ":", "m", "a", "n", "y">>,
      <<"r", "u", ":", "o", "n", "e">>, <<"r", "u", ":", "o", ":", "x">> }

Values ==
    { NoValue, Some(<<"k", "%">>), Some(<<"%", "d", "%", "@">>) }

RawMaps ==
    { raw \in UNION {[1..n -> [tag : Tags, value : Values]] : n \in 0..MaxEntries} :
        \A i, j \in 1..Len(raw) : i # j => raw[i].tag # raw[j].tag }

InitKey ==
    /\ raw_localizations \in RawMaps
    /\ pc = "classify"
    /\ next_entry = 1
    /\ localizations = <<>>
    /\ key = NoKey
    /\ raw_value = <<>>
    /\ value = <<>>

ValueUnchanged == UNCHANGED <<raw_value, value>>

Classify ==
    /\ pc = "classify"
    /\ pc' = IF any_key_is_compound(raw_localizations) THEN "plural" ELSE "single"
    /\ UNCHANGED <<raw_localizations, next_entry, localizations, key>>
    /\ ValueUnchanged

SingleSkipEmpty ==
    /\ pc = "single"
    /\ next_entry <= Len(raw_localizations)
    /\ ~raw_localizations[next_entry].value.some
    /\ next_entry' = next_entry + 1
    /\ UNCHANGED <<raw_localizations, pc, localizations, key>>
    /\ ValueUnchanged

SinglePush ==
    /\ pc = "single"
    /\ next_entry <= Len(raw_localizations)
    /\ raw_localizations[next_entry].value.some
    /\ localizations' =
          Append(localizations,
                 LocalizedString(raw_localizations[next_entry].tag,
                     Single(parse_localized_string_value(
                         raw_localizations[next_entry].value.text))))
    /\ next_entry' = next_entry + 1
    /\ UNCHANGED <<raw_localizations, pc, key>>
    /\ ValueUnchanged

SingleReturn ==
    /\ pc = "single"
    /\ next_entry > Len(raw_localizations)
    /\ key' = [ok |-> TRUE, localizations |-> localizations]
    /\ pc' = "done"
    /\ UNCHANGED <<raw_localizations, next_entry, localizations>>
    /\ ValueUnchanged

\* Variant: an absent value ends the construction with an error.
PluralFailOnEmpty ==
    /\ pc = "plural"
    /\ next_entry <= Len(raw_localizations)
    /\ ~raw_localizations[next_entry].value.some
    /\ key' = [ok |-> FALSE, localizations |-> <<>>]
    /\ pc' = "done"
    /\ UNCHANGED <<raw_localizations, next_entry, localizations>>
    /\ UNCHANGED <<raw_value, value>>

PluralSkipEmpty ==
    /\ pc = "plural"
    /\ next_entry <= Len(raw_localizations)
    /\ ~raw_localizations[next_entry].value.some
    /\ next_entry' = next_entry + 1
    /\ UNCHANGED <<raw_localizations, pc, localizations, key>>
    /\ ValueUnchanged

PluralSkipNoSplit ==
    /\ pc = "plural"
    /\ next_entry <= Len(raw_localizations)
    /\ raw_localizations[next_entry].value.some
    /\ ~split_once(raw_localizations[next_entry].tag).found
    /\ next_entry' = next_entry + 1
    /\ UNCHANGED <<raw_localizations, pc, localizations, key>>
    /\ ValueUnchanged

PluralPush ==
    /\ pc = "plural"
    /\ next_entry <= Len(raw_localizations)
    /\ raw_localizations[next_entry].value.some
    /\ split_once(raw_localizations[next_entry].tag).found
    /\ LET parts == split_once(raw_localizations[next_entry].tag)
       IN  localizations' =
              push_quantity(entry_or_insert(localizations, parts.before),
                            parts.before, parts.after,
                            parse_localized_string_value(
                                raw_localizations[next_entry].value.text))
    /\ next_entry' = next_entry + 1
    /\ UNCHANGED <<raw_localizations, pc, key>>
    /\ ValueUnchanged

PluralReturn ==
    /\ pc = "plural"
    /\ next_entry > Len(raw_localizations)
    /\ key' = [ok |-> TRUE, localizations |-> localizations]
    /\ pc' = "done"
    /\ UNCHANGED <<raw_localizations, next_entry, localizations>>
    /\ ValueUnchanged

NextKey ==
    \/ Classify
    \/ SingleSkipEmpty
    \/ SinglePush
    \/ SingleReturn
    \/ PluralSkipEmpty
    \/ PluralSkipNoSplit
    \/ PluralPush
    \/ PluralReturn

SpecKey == InitKey /\ [][NextKey]_vars

\* ------------------------------------------------- properties: vocabulary

CountChar(s, c) == Cardinality({i \in 1..Len(s) : s[i] = c})

StartsAt(s, i, w) == i + Len(w) - 1 <= Len(s) /\ SubSeq(s, i, i + Len(w) - 1) = w

\* The directives of a string: the matches of the full directive pattern.
Directives(s) == find_iter("PLACEHOLDER_REGEX_RE", s)

Text(s, m) == Slice(s, m.start, m.end)

Texts(s) ==
    LET ds == Directives(s)
    IN  [k \in 1..Len(ds) |-> Text(s, ds[k])]

\* A directive carries an explicit position when it holds a `$'.
IsPositioned(t) == str_contains(t, "$")

\* How many of the first k directive texts carry no explicit position.
UnpositionedAmong(ts, k) == Cardinality({j \in 1..k : ~IsPositioned(ts[j])})

UnpositionedCount(s) == UnpositionedAmong(Texts(s), Len(Texts(s)))

\* The text around the directives: before the first, between, after the last.
Gaps(s) ==
    LET ds == Directives(s)
    IN  [k \in 1..(Len(ds) + 1) |->
            Slice(s, IF k = 1 THEN 1 ELSE ds[k - 1].end,
                     IF k > Len(ds) THEN Len(s) + 1 ELSE ds[k].start)]

\* A directive text with a final `@' turned into `s'.
AtToS(t) == [i \in 1..Len(t) |-> IF i = Len(t) /\ t[i] = "@" THEN "s" ELSE t[i]]

\* A directive text with the index n put right after its `%'.
WithIndex(t, n) == <<"%">> \o format_int(n) \o <<"$">> \o Tail(t)

\* ---------------------------------------------------------- properties

\* C1: when the string handed to the numbering step holds two or more
\* directives without an explicit position, the step rewrites exactly those,
\* left to right, to carry 1, 2, 3, ... right after the `%' with the rest of
\* the directive verbatim; directives with an explicit position and all text
\* between directives are unchanged, and positioned directives use no number.
NumberedLeftToRight(before, after) ==
    LET tb == Texts(before)
        ta == Texts(after)
    IN  /\ Len(ta) = Len(tb)
        /\ Gaps(after) = Gaps(before)
        /\ \A k \in 1..Len(tb) :
              ta[k] = IF IsPositioned(tb[k]) THEN tb[k]
                      ELSE WithIndex(tb[k], UnpositionedAmong(tb, k))

DoubleEveryLonePercent(s) ==
    Concat([i \in 1..Len(s) |->
        IF s[i] = "%" /\ CharAt(s, i - 1) # "%" /\ CharAt(s, i + 1) # "%"
              /\ PLACEHOLDER_REGEX(s, i) = 0
            THEN <<"%", "%">>
            ELSE <<s[i]>>])

C2_EveryLonePercentDoubled ==
    [][pc = "percent" => value' = DoubleEveryLonePercent(value)]_vars

\* C3: normalizing an output again gives the same output. Stated on the
\* outputs that hold no `&', which a second run would escape again whatever
\* the percent step does.
C3_Idempotent ==
    pc = "done" /\ ~str_contains(value, "&")
        => parse_localized_string_value(value) = value

\* C4: every directive of the input ending in `@' comes out ending in `s'
\* with its other characters verbatim (an unpositioned one possibly given
\* its index by the numbering step), every other directive keeps its text
\* likewise, and no directive of the output ends in `@'.
EveryDirectiveKept(before, after) ==
    LET tb == Texts(before)
        ta == Texts(after)
    IN  /\ Len(ta) = Len(tb)
        /\ \A k \in 1..Len(tb) :
              \/ ta[k] = AtToS(tb[k])
              \/ /\ ~IsPositioned(tb[k])
                 /\ ta[k] = WithIndex(AtToS(tb[k]), UnpositionedAmong(tb, k))

NoNativeDirective(s) ==
    LET ts == Texts(s)
    IN  \A k \in 1..Len(ts) : ts[k][Len(ts[k])] # "@"

C4_NativeDirectiveBecomesString ==
    pc = "done" => EveryDirectiveKept(raw_value, value) /\ NoNativeDirective(value)

\* C4's case: a finished run over an input with a positioned and an
\* unpositioned `@' directive.
C4_Witness ==
    /\ pc = "done"
    /\ \E j, k \in 1..Len(Texts(raw_value)) :
          /\ IsPositioned(Texts(raw_value)[j])
          /\ ~IsPositioned(Texts(raw_value)[k])
          /\ Texts(raw_value)[j][Len(Texts(raw_value)[j])] = "@"
          /\ Texts(raw_value)[k][Len(Texts(raw_value)[k])] = "@"
    /\ CountChar(value, "@") = 0

\* C5: every `&' becomes `&amp;' and every `<' becomes `&lt;', character by
\* character (so a string with neither leaves the escaping step unchanged);
\* the output holds no `<', each of its `&' starts an `&amp;' or `&lt;', as
\* many of them as the input had `&' and `<', and as many `>' as the input.
CharwiseEscaped(s) ==
    Concat([i \in 1..Len(s) |->
        IF s[i] = "&" THEN <<"&", "a", "m", "p", ";">>
        ELSE IF s[i] = "<" THEN <<"&", "l", "t", ";">>
        ELSE <<s[i]>>])

C5_MarkupEscaped ==
    /\ pc = "percent" => value = CharwiseEscaped(raw_value)
    /\ pc = "percent" /\ CountChar(raw_value, "&") + CountChar(raw_value, "<") = 0
          => value = raw_value
    /\ pc = "done" =>
          /\ CountChar(value, "<") = 0
          /\ CountChar(value, ">") = CountChar(raw_value, ">")
          /\ \A i \in 1..Len(value) :
                value[i] = "&" =>
                    \/ StartsAt(value, i, <<"&", "a", "m", "p", ";">>)
                    \/ StartsAt(value, i, <<"&", "l", "t", ";">>)
          /\ Cardinality({i \in 1..Len(value) :
                            StartsAt(value, i, <<"&", "a", "m", "p", ";">>)})
                = CountChar(raw_value, "&")
          /\ Cardinality({i \in 1..Len(value) :
                            StartsAt(value, i, <<"&", "l", "t", ";">>)})
                = CountChar(raw_value, "<")

\* C5's case: a finished run over an input holding `&', `<' and `>'.
C5_Witness ==
    /\ pc = "done"
    /\ CountChar(raw_value, "&") = 1
    /\ CountChar(raw_value, "<") = 1
    /\ CountChar(raw_value, ">") = 1
    /\ Len(value) = 10

RECURSIVE PercentsBefore(_, _)
PercentsBefore(s, p) ==
    IF CharAt(s, p - 1) = "%" THEN 1 + PercentsBefore(s, p - 1) ELSE 0

SecondOfPair(s, p) == CharAt(s, p) = "%" /\ PercentsBefore(s, p) % 2 = 1

AllPercentsPaired(s) ==
    \A p \in 1..Len(s) :
        s[p] = "%" => SecondOfPair(s, p) \/ SecondOfPair(s, p + 1)

\* Directives that start at a `%' that is not the second of a pair and
\* carry no explicit position.
RealUnpositioned(s) ==
    {k \in 1..Len(Directives(s)) :
        ~SecondOfPair(s, Directives(s)[k].start) /\ ~IsPositioned(Texts(s)[k])}

C9_EscapedPercentLeftAlone ==
    [][/\ pc = "percent" /\ AllPercentsPaired(value) => value' = value
       /\ pc = "placeholders" /\ pc' = "number" =>
             \A p \in 1..Len(value) :
                 SecondOfPair(value, p) /\ PLACEHOLDER_REGEX(value, p) # 0
                     => value'[PLACEHOLDER_REGEX(value, p) - 1]
                            = value[PLACEHOLDER_REGEX(value, p) - 1]
       /\ pc = "number" /\ Cardinality(RealUnpositioned(value)) <= 1 => value' = value
      ]_vars

\* ------------------------------------------- properties: the key builder

IsCompound(tag) == \E i \in 1..Len(tag) : tag[i] = ":"

FirstColon(tag) ==
    CHOOSE i \in 1..Len(tag) : tag[i] = ":" /\ \A j \in 1..(i - 1) : tag[j] # ":"

LocaleOf(tag) == SubSeq(tag, 1, FirstColon(tag) - 1)

QuantityOf(tag) == SubSeq(tag, FirstColon(tag) + 1, Len(tag))

\* The first occurrences of a sequence's elements, in order.
RECURSIVE FirstSeen(_)
FirstSeen(xs) ==
    IF xs = <<>> THEN <<>>
    ELSE <<Head(xs)>> \o FirstSeen(SelectSeq(Tail(xs), LAMBDA x : x # Head(xs)))

\* The entries a plural construction keeps: a value and a compound tag.
RetainedCompound(raw) == SelectSeq(raw, LAMBDA e : e.value.some /\ IsCompound(e.tag))

\* The places of the strings a key holds: <<i, 0>> for a Single, <<i, j>>
\* for the j-th quantity of a Plural.
Places(locs) ==
    UNION {IF locs[i].value.kind = "Single" THEN {<<i, 0>>}
           ELSE {<<i, j>> : j \in 1..Len(locs[i].value.quantities)} :
           i \in 1..Len(locs)}

\* How many strings a key holds.
NumValues(locs) == Cardinality(Places(locs))

\* What a key holds, each string under the raw tag it stands for.
Carried(locs) ==
    {IF ij[2] = 0
        THEN [tag |-> locs[ij[1]].language_code, text |-> locs[ij[1]].value.text]
        ELSE [tag |-> locs[ij[1]].language_code \o <<":">>
                          \o locs[ij[1]].value.quantities[ij[2]].quantity,
              text |-> locs[ij[1]].value.quantities[ij[2]].text] :
        ij \in Places(locs)}

\* C6: for a map with a compound tag the key holds each locale once, in the
\* order the locales first appear among the retained compound tags, and each
\* locale's quantities are its retained entries, in the map's order.
C6_PluralGroupedInFirstSeenOrder ==
    pc = "done" /\ (\E i \in 1..Len(raw_localizations) : IsCompound(raw_localizations[i].tag))
        => LET kept == RetainedCompound(raw_localizations)
               locales == FirstSeen([i \in 1..Len(kept) |-> LocaleOf(kept[i].tag)])
               OfLocale(l) == SelectSeq(kept, LAMBDA e : LocaleOf(e.tag) = l)
           IN  /\ key.ok
               /\ [i \in 1..Len(key.localizations) |-> key.localizations[i].language_code]
                     = locales
               /\ \A i \in 1..Len(locales) :
                     key.localizations[i].value =
                         Plural([j \in 1..Len(OfLocale(locales[i])) |->
                             PluralValue(QuantityOf(OfLocale(locales[i])[j].tag),
                                 parse_localized_string_value(
                                     OfLocale(locales[i])[j].value.text))])

\* C6's case: a finished plural key of two locales, the first with two
\* quantities and the second locale's entry standing between them.
C6_Witness ==
    /\ pc = "done"
    /\ Len(raw_localizations) = 3
    /\ Len(key.localizations) = 2
    /\ Len(key.localizations[1].value.quantities) = 2
    /\ IsCompound(raw_localizations[2].tag)
    /\ LocaleOf(raw_localizations[2].tag) = key.localizations[2].language_code

\* C7: every map gives Ok, and the key holds exactly the entries that have a
\* value and a well-formed tag (any tag in a simple map, a compound one in a
\* plural map), each once and normalized: nothing stands for an entry
\* without a value, and no such entry removes another.
C7_AbsentValuesDroppedRestKept ==
    pc = "done"
        => LET plural == \E i \in 1..Len(raw_localizations) :
                             IsCompound(raw_localizations[i].tag)
               kept == {i \in 1..Len(raw_localizations) :
                           /\ raw_localizations[i].value.some
                           /\ plural => IsCompound(raw_localizations[i].tag)}
           IN  /\ key.ok
               /\ Carried(key.localizations) =
                     {[tag |-> raw_localizations[i].tag,
                       text |-> parse_localized_string_value(
                                    raw_localizations[i].value.text)] : i \in kept}
               /\ NumValues(key.localizations) = Cardinality(kept)
               /\ \A i \in 1..Len(raw_localizations) :
                     ~raw_localizations[i].value.some
                         => \A c \in Carried(key.localizations) :
                                c.tag # raw_localizations[i].tag

\* C7's case: a finished key whose map starts with an entry without a
\* value, followed by entries that are kept.
C7_Witness ==
    /\ pc = "done"
    /\ Len(raw_localizations) = 3
    /\ ~raw_localizations[1].value.some
    /\ NumValues(key.localizations) = 2

\* C10: with a compound tag anywhere in the map, even on an entry without a
\* value, every localization is Plural with at least one quantity, its
\* locale and each quantity being the two sides of the first `:' of a
\* compound tag of the map, and nothing stands for a tag without `:';
\* without any compound tag every localization is Single.
C10_ClassificationIsGlobal ==
    pc = "done"
        => IF \E i \in 1..Len(raw_localizations) : IsCompound(raw_localizations[i].tag)
           THEN /\ \A i \in 1..Len(key.localizations) :
                      LET loc == key.localizations[i]
                      IN  /\ loc.value.kind = "Plural"
                          /\ loc.value.quantities # <<>>
                          /\ ~IsCompound(loc.language_code)
                          /\ \A j \in 1..Len(loc.value.quantities) :
                                \E e \in 1..Len(raw_localizations) :
                                    raw_localizations[e].tag =
                                        loc.language_code \o <<":">>
                                            \o loc.value.quantities[j].quantity
                /\ NumValues(key.localizations)
                      <= Cardinality({e \in 1..Len(raw_localizations) :
                                         IsCompound(raw_localizations[e].tag)})
           ELSE \A i \in 1..Len(key.localizations) :
                    key.localizations[i].value.kind = "Single"

\* C10's case: a finished key whose only compound tags have no value or
\* hold a second `:', beside a plain tag with a value.
C10_Witness ==
    /\ pc = "done"
    /\ \E i, j, k \in 1..Len(raw_localizations) :
          /\ IsCompound(raw_localizations[i].tag) /\ ~raw_localizations[i].value.some
          /\ ~IsCompound(raw_localizations[j].tag) /\ raw_localizations[j].value.some
          /\ IsCompound(raw_localizations[k].tag)
          /\ IsCompound(QuantityOf(raw_localizations[k].tag))
          /\ raw_localizations[k].value.some
    /\ Len(key.localizations) = 1

====
